---- MODULE Spec2Model ----
(***************************************************************************)
(* The Doom-fire kernel of the three renderers of this repository:         *)
(*   "fire"      the terminal renderer   (fire.c,      src/unnamed/part_001)*)
(*   "fire_gfx"  the Cocoa 2D renderer   (fire-gfx.c,  src/fire-gfx.c)      *)
(*   "fire_cube" the OpenGL cube renderer(fire-cube.c, src/unnamed/part_000)*)
(* One behaviour is one run of one of the three programs.  The loops of    *)
(* init_palette and update_fire are stepped one iteration at a time, the   *)
(* loop counters i, x, y being part of the state; every rand() call is a   *)
(* nondeterministic draw.                                                  *)
(***************************************************************************)
EXTENDS Integers, Sequences, FiniteSets, TLC

VARIABLES
  variant,       \* which of the three programs runs
  pc,            \* position of the program
  i,             \* loop counter of init_palette
  palette,       \* fire-gfx.c / fire-cube.c: uint32_t palette[256]
  palette_rgb,   \* fire.c: ColorRGB palette_rgb[256]
  palette_256,   \* fire.c: uint8_t palette_256[256]
  ws,            \* fire.c: struct winsize w of main, <<ws_col, ws_row>>
  width,         \* fire.c: width   (FIRE_WIDTH in the windowed programs)
  height,        \* fire.c: height  (FIRE_HEIGHT in the windowed programs)
  fire_buffer,   \* the heat grid, row-major, indices 0 .. width*height-1
  pixel_buffer,  \* fire-gfx.c / fire-cube.c: uint32_t pixel_buffer[]
  x,             \* column counter of the loops of update_fire
  y,             \* row counter of the propagation loop of update_fire
  entry_buffer,  \* history: fire_buffer as it stood when update_fire was entered
  frames,        \* history: calls of update_fire since the buffer was allocated (saturating)
  steps,         \* history: loop iterations of update_fire since the buffer was allocated (saturating)
  val_read,      \* history: the val read for each cell of rows 0 .. height-2 in this call, -1 if none yet
  resized,       \* history: this iteration of the main loop called resize_buffers
  wrote,         \* history: for each cell of rows 0 .. height-2, <<dst_idx, value>> of the write made in this call by the loop body standing on it, <<-1, -1>> if none
  wrapped,       \* history: some store into fire_buffer truncated the int it was given
  oob            \* history: this call of update_fire accessed fire_buffer outside the allocation

vars == <<variant, pc, i, palette, palette_rgb, palette_256, ws, width, height,
          fire_buffer, pixel_buffer, x, y, entry_buffer, frames, steps, val_read,
          wrote, resized, wrapped, oob>>

paletteVars == <<i, palette, palette_rgb, palette_256>>
fieldVars   == <<ws, width, height, fire_buffer, pixel_buffer, x, y,
                 entry_buffer, frames, steps, val_read, wrote, resized, oob>>

----------------------------------------------------------------------------
(* Bounds of the model *)

\* loop iterations of update_fire (seeded cells plus propagated cells) explored
\* per allocation on a field of more than one cell; a field of a single cell
\* is run without a cap
MaxSteps == 12

\* the same on a field of three or more columns
MaxStepsWide == 6

\* window sizes the terminal reports (ws_col, ws_row are unsigned short)
TermSizes == {<<0, 0>>, <<2, 0>>, <<1, 1>>, <<2, 3>>}

\* FIRE_WIDTH x FIRE_HEIGHT, scaled down: 320 x 200 in fire-gfx.c, 128 x 128
\* in fire-cube.c
StaticSizes(v) == IF v = "fire_gfx" THEN {<<1, 1>>, <<2, 3>>, <<1, 4>>} ELSE {<<1, 1>>, <<2, 2>>, <<3, 2>>}

\* values of rand() % 100, rand() % 50 and rand() % 3 that are explored
Rand100 == {59, 60}
Rand50  == {0, 49}
Rand3   == 0 .. 2

----------------------------------------------------------------------------
(* Program constants *)

PALETTE_SIZE == 256
COOLING_MAX  == 3
SPARK_CHANCE == 60

Variants == {"fire", "fire_gfx", "fire_cube"}
Windowed == {"fire_gfx", "fire_cube"}

\* a store into a uint8_t
U8(v) == v % 256
Fits8(v) == v >= 0 /\ v <= 255

Zeros(n) == [k \in 0 .. (n - 1) |-> 0]

----------------------------------------------------------------------------
(* init_palette *)

\* init_palette with the first breakpoint one too far: 64 * 4 no longer fits r
RampRGBLateBreak(n) ==
  IF n < 65 THEN <<n * 4, 0, 0>>
  ELSE IF n < 128 THEN <<255, (n - 64) * 4, 0>>
  ELSE IF n < 192 THEN <<255, 255, (n - 128) * 4>>
  ELSE <<255, 255, 255>>

\* init_palette with g = 255 forgotten in the third ramp
RampRGBNoGreen(n) ==
  IF n < 64 THEN <<n * 4, 0, 0>>
  ELSE IF n < 128 THEN <<255, (n - 64) * 4, 0>>
  ELSE IF n < 192 THEN <<255, 0, (n - 128) * 4>>
  ELSE <<255, 255, 255>>

\* the r, g, b computed for index n before they are stored into uint8_t
RampRGB(n) ==
  IF n < 64 THEN <<n * 4, 0, 0>>
  ELSE IF n < 128 THEN <<255, (n - 64) * 4, 0>>
  ELSE IF n < 192 THEN <<255, 255, (n - 128) * 4>>
  ELSE <<255, 255, 255>>

\* uint8_t r, g, b after the assignments
RampU8(n) == <<U8(RampRGB(n)[1]), U8(RampRGB(n)[2]), U8(RampRGB(n)[3])>>

\* (0xFF << 24) | (r << 16) | (g << 8) | b, kept as the four bytes <<A, R, G, B>>
\* of the uint32_t, most significant first
PackARGB(c) == <<255, c[1], c[2], c[3]>>

\* a zeroed uint32_t in the same representation
ZeroPixel == <<0, 0, 0, 0>>

\* the 256-colour index of fire.c
Index256(n) ==
  IF n = 0 THEN 16
  ELSE IF n < 64 THEN 52 + (n \div 16)
  ELSE IF n < 128 THEN 160 + ((n - 64) \div 16) * 6
  ELSE IF n < 220 THEN 202 + (n - 128) \div 10
  ELSE 231

\* one iteration of the for loop of init_palette
PaletteStep ==
  /\ pc = "init_palette"
  /\ i < PALETTE_SIZE
  /\ IF variant = "fire"
       THEN /\ palette_rgb' = [palette_rgb EXCEPT ![i] = RampU8(i)]
            /\ palette_256' = [palette_256 EXCEPT ![i] = U8(Index256(i))]
            /\ UNCHANGED palette
       ELSE /\ palette' = [palette EXCEPT ![i] = PackARGB(RampU8(i))]
            /\ UNCHANGED <<palette_rgb, palette_256>>
  /\ i' = i + 1
  /\ UNCHANGED <<variant, pc, wrapped>>
  /\ UNCHANGED fieldVars

\* the loop of init_palette ends; main / applicationDidFinishLaunching goes on
PaletteExit ==
  /\ pc = "init_palette"
  /\ i >= PALETTE_SIZE
  /\ pc' = IF variant = "fire" THEN "startup" ELSE "idle"
  /\ UNCHANGED <<variant, wrapped>>
  /\ UNCHANGED paletteVars
  /\ UNCHANGED fieldVars

----------------------------------------------------------------------------
(* resize_buffers and the main loop of fire.c *)

\* no cell has been read yet
NoReads(n) == [k \in 0 .. (n - 1) |-> -1]

\* no loop body has written yet
NoWrites(n) == [k \in 0 .. (n - 1) |-> <<-1, -1>>]

\* resize_buffers that keeps the old cells, as a realloc would
ResizeBuffersKeep(w, h) ==
  IF w = width /\ h = height
    THEN UNCHANGED <<width, height, fire_buffer, entry_buffer, frames, steps, val_read, wrote>>
    ELSE /\ width' = w
         /\ height' = h
         /\ fire_buffer' = [k \in 0 .. (w * h - 1) |->
                              IF k \in DOMAIN fire_buffer THEN fire_buffer[k] ELSE 0]
         /\ entry_buffer' = Zeros(w * h)
         /\ frames' = 0
         /\ steps' = 0
         /\ val_read' = NoReads(w * h)
         /\ wrote' = NoWrites(w * h)

\* resize_buffers(w, h): early return on an unchanged size, otherwise both
\* dimensions are taken over and the buffer is calloc'ed anew
ResizeBuffers(w, h) ==
  IF w = width /\ h = height
    THEN UNCHANGED <<width, height, fire_buffer, entry_buffer, frames, steps, val_read, wrote>>
    ELSE /\ width' = w
         /\ height' = h
         /\ fire_buffer' = Zeros(w * h)
         /\ entry_buffer' = Zeros(w * h)
         /\ frames' = 0
         /\ steps' = 0
         /\ val_read' = NoReads(w * h)
         /\ wrote' = NoWrites(w * h)

\* main of fire.c up to the loop: ioctl(TIOCGWINSZ), resize_buffers(ws_col, ws_row)
Startup ==
  /\ variant = "fire"
  /\ pc = "startup"
  /\ \E s \in TermSizes :
       /\ ws' = s
       /\ ResizeBuffers(s[1], s[2])
  /\ pc' = "loop"
  /\ UNCHANGED <<variant, pixel_buffer, x, y, resized, wrapped, oob>>
  /\ UNCHANGED paletteVars

\* head of one iteration of the main loop: running is still true (the exit on
\* SIGINT is left out, the loop is followed for as long as it runs),
\* ioctl(TIOCGWINSZ) refreshes w, and a size that differs from width x height
\* is handed to resize_buffers
LoopHead ==
  /\ variant = "fire"
  /\ pc = "loop"
  /\ \E s \in TermSizes :
       /\ ws' = s
       /\ resized' = (s[1] # width \/ s[2] # height)
       /\ IF s[1] # width \/ s[2] # height
            THEN ResizeBuffers(s[1], s[2])
            ELSE UNCHANGED <<width, height, fire_buffer, entry_buffer, frames, steps, val_read, wrote>>
  /\ pc' = "enter"
  /\ UNCHANGED <<variant, pixel_buffer, x, y, wrapped, oob>>
  /\ UNCHANGED paletteVars

----------------------------------------------------------------------------
(* update_fire *)

\* index arithmetic of the source
LastRow == (height - 1) * width
\* the cell below read in the mirrored column
SrcIdxMirrored(yy, xx) == (yy + 1) * width + (width - 1 - xx)
\* the cell two rows below read where there is one
SrcIdxTwoBelow(yy, xx) == (IF yy + 2 <= height - 1 THEN yy + 2 ELSE yy + 1) * width + xx
\* the cell itself read instead of the cell below
SrcIdxSameRow(yy, xx) == yy * width + xx
SrcIdx(yy, xx) == (yy + 1) * width + xx
RowIdx(yy, xx) == yy * width + xx
InBuffer(n) == n \in DOMAIN fire_buffer

\* the values of the decay draw that are explored, the least and the greatest:
\* rand() % (COOLING_MAX + 1) in fire.c, rand() % 3 in the windowed programs
DecayDraws == IF variant = "fire" THEN {0, COOLING_MAX} ELSE {0, 2}

\* the spark branch is taken: (rand() % 100) < SPARK_CHANCE
IsSpark(p) == p < SPARK_CHANCE

\* value computed for a spark: 255 - (rand() % 50)
Sparked(r) == 255 - r

\* cooling with the threshold at the step less one
CooledAboveFour(old) == IF old > 4 THEN old - 5 ELSE old
\* cooling without the test against 10
CooledUnguarded(old) == old - 5
\* cooling that takes the threshold for the step
CooledByTen(old) == IF old > 10 THEN old - 10 ELSE old

\* value computed for an unsparked source cell
Cooled(old) == IF old > 10 THEN old - 5 ELSE old

\* new_val = val - decay; if (new_val < 0) new_val = 0
NewVal(val, decay) == IF val - decay < 0 THEN 0 ELSE val - decay

\* dst_x of the windowed programs: x - rand_idx + 1, clamped into the row
ClampedDstX(xx, rand_idx) ==
  LET d == xx - rand_idx + 1
  IN  IF d < 0 THEN 0 ELSE IF d >= width THEN width - 1 ELSE d

\* dst_x of fire.c: x - rand_idx + 1, not clamped
RawDstX(xx, rand_idx) == xx - rand_idx + 1

\* fire.c writes only if (dst_x >= 0 && dst_x < width)
DstInRow(dst_x) == dst_x >= 0 /\ dst_x < width

\* fire_buffer[n] = v, the int v truncated to uint8_t
Store(n, v) ==
  /\ fire_buffer' = [fire_buffer EXCEPT ![n] = U8(v)]
  /\ wrapped' = (wrapped \/ ~Fits8(v))

\* a write that leaves the cell alone when an earlier column of this row pass
\* has already written it (the first writer wins)
WriteFirstWins(n, v) ==
  /\ IF \E xs \in 0 .. (x - 1) : wrote[RowIdx(y, xs)][1] = n
       THEN UNCHANGED <<fire_buffer, wrapped>>
       ELSE Store(n, v)
  /\ wrote' = [wrote EXCEPT ![RowIdx(y, x)] = <<n, v>>]

\* fire_buffer[n] = v, stored by the loop body standing on row y, column x
Write(n, v) ==
  /\ Store(n, v)
  /\ wrote' = [wrote EXCEPT ![RowIdx(y, x)] = <<n, v>>]

\* the cap on the explored loop iterations, and the saturating counters
WithinCap == width * height <= 1 \/ steps < (IF width >= 3 THEN MaxStepsWide ELSE MaxSteps)
Count(n) == IF n < MaxSteps THEN n + 1 ELSE n

\* where update_fire stands once both loops are over: fire.c returns, the
\* windowed programs go on to render
AfterLoops == IF variant = "fire" THEN "returned" ELSE "render"

\* the loop tests of update_fire: the position <<pc, y, x>> at which the next
\* loop body runs when the seeding loop stands at column xv
SeedPos(xv) ==
  IF xv < width THEN <<"seed", 0, xv>>
  ELSE IF 0 < height - 1 /\ 0 < width THEN <<"propagate", 0, 0>>
  ELSE <<AfterLoops, 0, 0>>

\* the same when the propagation loops stand at row yv, column xv
PropagatePos(yv, xv) ==
  IF xv < width THEN <<"propagate", yv, xv>>
  ELSE IF yv + 1 < height - 1 THEN <<"propagate", yv + 1, 0>>
  ELSE <<AfterLoops, 0, 0>>

\* the loop counters and the position move on
Goto(pos) == pc' = pos[1] /\ y' = pos[2] /\ x' = pos[3]

\* update_fire is called: by the main loop of fire.c after the resize check,
\* by tick: in the windowed programs
UpdateFireEnter ==
  /\ \/ variant = "fire" /\ pc = "enter"
     \/ variant \in Windowed /\ pc = "idle"
  /\ Goto(SeedPos(0))
  /\ frames' = Count(frames)
  /\ entry_buffer' = fire_buffer
  /\ val_read' = NoReads(width * height)
  /\ wrote' = NoWrites(width * height)
  /\ resized' = FALSE
  /\ oob' = FALSE
  /\ UNCHANGED <<variant, ws, width, height, fire_buffer, pixel_buffer, steps, wrapped>>
  /\ UNCHANGED paletteVars

\* one iteration of the seeding loop, on an index inside the buffer
SeedStep ==
  /\ pc = "seed"
  /\ InBuffer(LastRow + x)
  /\ WithinCap
  /\ steps' = Count(steps)
  /\ \E p \in Rand100 :
       IF IsSpark(p)
         THEN \E r \in Rand50 : Store(LastRow + x, Sparked(r))
         ELSE Store(LastRow + x, Cooled(fire_buffer[LastRow + x]))
  /\ Goto(SeedPos(x + 1))
  /\ UNCHANGED <<variant, ws, width, height, pixel_buffer, entry_buffer, frames,
                 val_read, wrote, resized, oob>>
  /\ UNCHANGED paletteVars

\* one iteration of the seeding loop whose index last_row_idx + x lies outside
\* the allocation (height = 0): undefined behaviour, the access either faults
\* or touches memory that is not the grid
SeedStepOutOfBounds ==
  /\ pc = "seed"
  /\ ~InBuffer(LastRow + x)
  /\ WithinCap
  /\ steps' = Count(steps)
  /\ oob' = TRUE
  /\ \/ pc' = "crashed" /\ UNCHANGED <<x, y>>
     \/ Goto(SeedPos(x + 1))
  /\ UNCHANGED <<variant, ws, width, height, fire_buffer, pixel_buffer,
                 entry_buffer, frames, val_read, wrote, resized, wrapped>>
  /\ UNCHANGED paletteVars

\* body of the inner loop in fire.c: the decay is drawn first, the write is
\* dropped when dst_x falls outside the row
PropagateCellFire ==
  \E decay \in DecayDraws :
    LET val == fire_buffer[SrcIdx(y, x)]
    IN  IF val > 0
          THEN \E rand_idx \in Rand3 :
                 LET dst_x == RawDstX(x, rand_idx)
                 IN  IF DstInRow(dst_x)
                       THEN Write(RowIdx(y, dst_x), NewVal(val, decay))
                       ELSE UNCHANGED <<fire_buffer, wrapped, wrote>>
          ELSE Write(RowIdx(y, x), 0)

\* body of the inner loop in fire-gfx.c and fire-cube.c: dst_x is clamped
PropagateCellWindowed ==
  LET val == fire_buffer[SrcIdx(y, x)]
  IN  IF val = 0
        THEN Write(RowIdx(y, x), 0)
        ELSE \E decay \in DecayDraws, rand_idx \in Rand3 :
               Write(RowIdx(y, ClampedDstX(x, rand_idx)), NewVal(val, decay))

\* one iteration of the inner propagation loop
PropagateStep ==
  /\ pc = "propagate"
  /\ WithinCap
  /\ steps' = Count(steps)
  /\ IF variant = "fire" THEN PropagateCellFire ELSE PropagateCellWindowed
  /\ val_read' = [val_read EXCEPT ![RowIdx(y, x)] = fire_buffer[SrcIdx(y, x)]]
  /\ Goto(PropagatePos(y, x + 1))
  /\ UNCHANGED <<variant, ws, width, height, pixel_buffer, entry_buffer, frames,
                 resized, oob>>
  /\ UNCHANGED paletteVars

\* the render loop stopping one index short
RenderedPixelsShort ==
  [n \in DOMAIN pixel_buffer |->
     IF n + 1 < width * height THEN palette[fire_buffer[n]] ELSE pixel_buffer[n]]

\* pixel_buffer[n] = palette[fire_buffer[n]] for every n
RenderedPixels == [n \in DOMAIN pixel_buffer |-> palette[fire_buffer[n]]]

\* phase 3 of update_fire in the windowed programs
RenderPixels ==
  /\ variant \in Windowed
  /\ pc = "render"
  /\ pixel_buffer' = RenderedPixels
  /\ pc' = "returned"
  /\ UNCHANGED <<variant, ws, width, height, fire_buffer, x, y, entry_buffer,
                 frames, steps, val_read, wrote, resized, wrapped, oob>>
  /\ UNCHANGED paletteVars

\* after update_fire: render() and nanosleep in fire.c, setNeedsDisplay in tick:
Present ==
  /\ pc = "returned"
  /\ pc' = IF variant = "fire" THEN "loop" ELSE "idle"
  /\ entry_buffer' = fire_buffer
  /\ val_read' = NoReads(width * height)
  /\ wrote' = NoWrites(width * height)
  /\ UNCHANGED <<variant, ws, width, height, fire_buffer, pixel_buffer, x, y,
                 frames, steps, resized, wrapped, oob>>
  /\ UNCHANGED paletteVars

----------------------------------------------------------------------------
Init ==
  /\ variant \in Variants
  /\ pc = "init_palette"
  /\ i = 0
  /\ palette = IF variant \in Windowed THEN [k \in 0 .. (PALETTE_SIZE - 1) |-> ZeroPixel] ELSE <<>>
  /\ palette_rgb = IF variant = "fire" THEN [k \in 0 .. (PALETTE_SIZE - 1) |-> <<0, 0, 0>>] ELSE <<>>
  /\ palette_256 = IF variant = "fire" THEN Zeros(PALETTE_SIZE) ELSE <<>>
  /\ ws = <<0, 0>>
  /\ \E s \in StaticSizes(variant) :
       /\ width  = IF variant = "fire" THEN 0 ELSE s[1]
       /\ height = IF variant = "fire" THEN 0 ELSE s[2]
  /\ fire_buffer = Zeros(width * height)
  /\ pixel_buffer = IF variant \in Windowed THEN [k \in 0 .. (width * height - 1) |-> ZeroPixel] ELSE <<>>
  /\ x = 0
  /\ y = 0
  /\ entry_buffer = fire_buffer
  /\ frames = 0
  /\ steps = 0
  /\ val_read = NoReads(width * height)
  /\ wrote = NoWrites(width * height)
  /\ resized = FALSE
  /\ wrapped = FALSE
  /\ oob = FALSE

Next ==
  \/ PaletteStep
  \/ PaletteExit
  \/ Startup
  \/ LoopHead
  \/ UpdateFireEnter
  \/ SeedStep
  \/ SeedStepOutOfBounds
  \/ PropagateStep
  \/ RenderPixels
  \/ Present

Spec == Init /\ [][Next]_vars

----------------------------------------------------------------------------
(* Properties *)

Grid(yy, xx)  == fire_buffer[yy * width + xx]
Entry(yy, xx) == entry_buffer[yy * width + xx]
Cols == 0 .. (width - 1)
CallReturned == pc = "returned"

ExtinguishedStaysExtinguished ==
  CallReturned =>
    \A yy \in 0 .. (height - 2) : \A c \in Cols :
      Entry(yy + 1, c) = 0 => Grid(yy, c) = 0

\* the row below as the sweep reads it: the source row as re-seeded by this
\* call, any other row as it stood when the call was entered
BelowAsRead(yy, c) ==
  IF yy + 1 = height - 1 THEN Grid(yy + 1, c) ELSE Entry(yy + 1, c)

\* C2 amended: a cell is 0 after the call if, in the row below as the sweep
\* reads it, the cell below is 0 and the cell below its right neighbour is 0
\* too (or the cell is in the last column).
ExtinguishedUnlessDriftedInto ==
  CallReturned =>
    \A yy \in 0 .. (height - 2) : \A c \in Cols :
      (/\ BelowAsRead(yy, c) = 0
       /\ (c = width - 1 \/ BelowAsRead(yy, c + 1) = 0))
        => Grid(yy, c) = 0

\* a row two above the source whose row below held a burning and an
\* extinguished cell at entry: the burning one has propagated, the cell above
\* the extinguished one is 0
ExtinguishedWitness ==
  /\ CallReturned
  /\ height >= 3
  /\ \E yy \in 0 .. (height - 3) : \E c \in Cols, b \in Cols :
       /\ Entry(yy + 1, c) = 0
       /\ (c = width - 1 \/ Entry(yy + 1, c + 1) = 0)
       /\ Entry(yy + 1, b) > 0
       /\ Grid(yy, c) = 0
       /\ Grid(yy, b) > 0

ClampCol(c) == IF c < 0 THEN 0 ELSE IF c > width - 1 THEN width - 1 ELSE c
AtLeastZero(v) == IF v < 0 THEN 0 ELSE v

\* C3: propagation rule. Every iteration of the inner loop on a cell whose
\* cell below val is non-zero writes max(0, val - d), d in 0 .. COOLING_MAX,
\* into column clamp(x + k, 0, width-1) of row y, k in -1 .. 1, and nothing
\* else, in all three programs.
PropagationRule ==
  [][(pc = "propagate" /\ fire_buffer[(y + 1) * width + x] # 0) =>
       \E k \in {-1, 0, 1}, d \in 0 .. 3 :
         fire_buffer' =
           [fire_buffer EXCEPT ![y * width + ClampCol(x + k)] =
              AtLeastZero(fire_buffer[(y + 1) * width + x] - d)]]_vars

\* C4: dimension validation. update_fire never runs on a field with a
\* non-positive dimension and never indexes outside the buffer.
DimensionValidation ==
  /\ pc \in {"seed", "propagate", "render", "returned"} => (width > 0 /\ height > 0)
  /\ ~oob

\* C5: seeding rule. After a call every source-row cell is either a spark
\* value 255 - r, r in 0 .. 49, or its value at entry less 5 if that was above
\* 10, or its value at entry if that was at most 10.
SeedingRule ==
  (CallReturned /\ height >= 1) =>
    \A c \in Cols :
      \/ \E r \in 0 .. 49 : Grid(height - 1, c) = 255 - r
      \/ Entry(height - 1, c) > 10 /\ Grid(height - 1, c) = Entry(height - 1, c) - 5
      \/ Entry(height - 1, c) <= 10 /\ Grid(height - 1, c) = Entry(height - 1, c)

\* a source row that was 255 everywhere at entry and did not spark: 250 everywhere
SeedingWitness ==
  /\ CallReturned
  /\ width >= 2
  /\ height >= 1
  /\ \A c \in Cols : Entry(height - 1, c) = 255 /\ Grid(height - 1, c) = 250

\* the four-ramp reference of C6
ReferenceRamp(n) ==
  IF n < 64 THEN <<4 * n, 0, 0>>
  ELSE IF n < 128 THEN <<255, 4 * (n - 64), 0>>
  ELSE IF n < 192 THEN <<255, 255, 4 * (n - 128)>>
  ELSE <<255, 255, 255>>

\* R, G, B of entry n of the palette of the running program
EntryRGB(n) ==
  IF variant = "fire" THEN palette_rgb[n]
  ELSE <<palette[n][2], palette[n][3], palette[n][4]>>

\* C6: palette ramp. Every entry init_palette has built equals the four-ramp
\* reference, in each of the three programs (so the three palettes are the
\* same), and the finished palette keeps its entries 0, 64, 128 and 255.
PaletteRamp ==
  /\ pc = "init_palette" => \A n \in 0 .. (i - 1) : EntryRGB(n) = ReferenceRamp(n)
  /\ pc # "init_palette" =>
       /\ EntryRGB(0) = <<0, 0, 0>>
       /\ EntryRGB(64) = <<255, 0, 0>>
       /\ EntryRGB(128) = <<255, 255, 0>>
       /\ EntryRGB(255) = <<255, 255, 255>>

\* init_palette of fire-cube.c has run through all 256 indices
PaletteRampWitness ==
  /\ variant = "fire_cube"
  /\ pc = "init_palette"
  /\ i = 256
  /\ palette[191] = <<255, 255, 255, 252>>

Brightness(n) == EntryRGB(n)[1] + EntryRGB(n)[2] + EntryRGB(n)[3]

\* C7: palette monotonic brightness. In the palette init_palette has built,
\* R+G+B of entry i1 is at most R+G+B of entry i2 whenever i1 < i2.
PaletteMonotonic ==
  (pc = "init_palette" /\ i = 256) =>
    \A i1 \in 0 .. 255 : \A i2 \in i1 .. 255 : Brightness(i1) <= Brightness(i2)

\* the finished palette of fire-gfx.c, with the brightness steps across the
\* three breakpoints
PaletteMonotonicWitness ==
  /\ variant = "fire_gfx"
  /\ pc = "init_palette"
  /\ i = 256
  /\ Brightness(63) = 252 /\ Brightness(64) = 255
  /\ Brightness(127) = 507 /\ Brightness(128) = 510
  /\ Brightness(191) = 762 /\ Brightness(192) = 765

\* C8: render consistency. When update_fire of a windowed program has
\* returned, every pixel is the palette entry of its cell.
RenderConsistency ==
  (CallReturned /\ variant \in Windowed) =>
    /\ DOMAIN pixel_buffer = DOMAIN fire_buffer
    /\ \A n \in DOMAIN fire_buffer : pixel_buffer[n] = palette[fire_buffer[n]]

\* a returned call of a windowed program after which one pixel went from
\* black to white with its cell and another from white back to black
RenderWitness ==
  /\ CallReturned
  /\ variant \in Windowed
  /\ \E n \in DOMAIN fire_buffer :
       /\ entry_buffer[n] = 0
       /\ fire_buffer[n] >= 192
       /\ pixel_buffer[n] = <<255, 255, 255, 255>>
  /\ \E n \in DOMAIN fire_buffer :
       /\ entry_buffer[n] >= 192
       /\ fire_buffer[n] = 0
       /\ pixel_buffer[n] = <<255, 0, 0, 0>>

\* C9 as stated: the value read from the cell below is the value that cell
\* has once this call has updated it.
ReadsUpdatedRow ==
  CallReturned =>
    \A yy \in 0 .. (height - 2) : \A c \in Cols :
      val_read[yy * width + c] = Grid(yy + 1, c)

\* C9 amended: only the source row is read as updated by this call (row
\* height-2 reads the freshly seeded source row); every higher row reads the
\* row below as it stood when the call was entered.
ReadsRowBelowAsEntered ==
  CallReturned =>
    \A yy \in 0 .. (height - 2) : \A c \in Cols :
      val_read[yy * width + c] =
        IF yy = height - 2 THEN Grid(height - 1, c) ELSE Entry(yy + 1, c)

\* a row above row height-2 read a burning cell that this call then changed
ReadsWitness ==
  /\ CallReturned
  /\ height >= 3
  /\ \E c \in Cols :
       /\ val_read[(height - 3) * width + c] = Entry(height - 2, c)
       /\ Entry(height - 2, c) > 0
       /\ Grid(height - 2, c) > 0
       /\ Grid(height - 2, c) # Entry(height - 2, c)

\* C10: resize is a fresh construction. An iteration of the main loop whose
\* ioctl reports a size other than width x height leaves width and height
\* equal to that size and every cell 0; and whenever update_fire is about to
\* be called the buffer has exactly width * height cells of the reported size.
ResizeIsFresh ==
  [][/\ (pc = "loop" /\ pc' = "enter" /\ ws' # <<width, height>>) =>
          /\ width' = ws'[1]
          /\ height' = ws'[2]
          /\ \A n \in DOMAIN fire_buffer' : fire_buffer'[n] = 0
     /\ pc' = "enter" =>
          /\ <<width', height'>> = ws'
          /\ DOMAIN fire_buffer' = 0 .. (width' * height' - 1)]_vars

\* the main loop has just resized to 2 x 3: six cells, all 0
ResizeWitness ==
  /\ pc = "enter"
  /\ resized
  /\ ws = <<2, 3>>
  /\ width = 2 /\ height = 3
  /\ fire_buffer = [n \in 0 .. 5 |-> 0]

\* the xterm-256 colour cube: channel levels 0, 95, 135, 175, 215, 255 and
\* R+G+B of the colour k = 16 + 36 r + 6 g + b
CubeLevel(l) == IF l = 0 THEN 0 ELSE 55 + 40 * l
CubeBrightness(k) ==
  CubeLevel((k - 16) \div 36) + CubeLevel(((k - 16) \div 6) % 6) + CubeLevel((k - 16) % 6)

\* C11: reduced palette preserves brightness order. In the finished table of
\* fire.c every entry of palette_256 is a colour of the cube 16 .. 231, and
\* the cube brightness of palette_256[i1] is at most that of palette_256[i2]
\* whenever i1 < i2.
ReducedPaletteMonotonic ==
  (variant = "fire" /\ pc = "init_palette" /\ i = 256) =>
    /\ \A n \in 0 .. 255 : palette_256[n] \in 16 .. 231
    /\ \A i1 \in 0 .. 255 : \A i2 \in i1 .. 255 :
         CubeBrightness(palette_256[i1]) <= CubeBrightness(palette_256[i2])

\* the source columns whose loop body wrote cell (yy, c) in this call, and the
\* greatest of a set of columns
Writers(yy, c) == {xs \in Cols : wrote[yy * width + xs][1] = yy * width + c}
Latest(S) == CHOOSE m \in S : \A k \in S : k <= m

\* C12: last writer wins within a row pass. After a call, every cell of a row
\* above the source row was written only from the source columns c-1, c, c+1,
\* holds the value written by the greatest of the source columns that wrote
\* it, and holds its value at entry if no column wrote it.
LastWriterWins ==
  CallReturned =>
    \A yy \in 0 .. (height - 2) : \A c \in Cols :
      /\ Writers(yy, c) \subseteq {c - 1, c, c + 1}
      /\ IF Writers(yy, c) = {}
           THEN Grid(yy, c) = Entry(yy, c)
           ELSE Grid(yy, c) = wrote[yy * width + Latest(Writers(yy, c))][2]

\* a windowed program has returned from a call in which the columns c-1, c
\* and c+1 all wrote cell (yy, c), the last two with different values, and
\* the cell holds the value written from c+1, while a cell of the same row
\* was written by no column and kept its value
LastWriterWitness ==
  /\ CallReturned
  /\ variant \in Windowed
  /\ \E yy \in 0 .. (height - 2) : \E c \in Cols, d \in Cols :
       /\ Writers(yy, c) = {c - 1, c, c + 1}
       /\ wrote[yy * width + c][2] # wrote[yy * width + c + 1][2]
       /\ Grid(yy, c) = wrote[yy * width + c + 1][2]
       /\ Writers(yy, d) = {}
       /\ Grid(yy, d) = Entry(yy, d)

\* C13: heat rises at most one row per frame. In a buffer that was all 0 when
\* it was allocated, during and after the n-th call of update_fire every cell
\* of every row y < height-1-n is 0, whatever rand() returned; and in a
\* returned call row height-2 has read the source row as this call seeded it,
\* every higher row the row below as the previous call left it.
HeatRisesOneRow ==
  /\ frames < MaxSteps =>
       \A yy \in 0 .. (height - 2 - frames) : \A c \in Cols : Grid(yy, c) = 0
  /\ CallReturned =>
       \A yy \in 0 .. (height - 2) : \A c \in Cols :
         /\ yy = height - 2 => val_read[yy * width + c] = Grid(yy + 1, c)
         /\ yy < height - 2 => val_read[yy * width + c] = Entry(yy + 1, c)

\* the second call on a field of four rows has returned: the heat has reached
\* row 1, two rows above the source row, and row 0 is still 0
HeatRisesWitness ==
  /\ CallReturned
  /\ frames = 2
  /\ height = 4
  /\ \E c \in Cols : Grid(2, c) > 0 /\ Grid(1, c) > 0
  /\ \A c \in Cols : Grid(0, c) = 0

\* C14: the source row never re-extinguishes. Every step leaves every cell
\* of the bottom row either 0 or in 6 .. 255, and a bottom-row cell that is
\* above 0 stays above 0 for as long as width and height stay what they are.
SourceRowStaysLit ==
  [][/\ height' >= 1 =>
          \A c \in 0 .. (width' - 1) :
            \/ fire_buffer'[(height' - 1) * width' + c] = 0
            \/ fire_buffer'[(height' - 1) * width' + c] \in 6 .. 255
     /\ (width' = width /\ height' = height /\ height >= 1) =>
          \A c \in Cols :
            Grid(height - 1, c) > 0 => fire_buffer'[(height - 1) * width + c] > 0]_vars

\* a call has returned that found a bottom-row cell cooled down to 6 and left
\* it at 6
SourceRowWitness ==
  /\ CallReturned
  /\ height >= 1
  /\ \E c \in Cols : Entry(height - 1, c) = 6 /\ Grid(height - 1, c) = 6

====
